---- MODULE Spec2Model ----
(***************************************************************************)
(* Model of src/src/adapter.rs: the ESP-AT network adapter.  The adapter   *)
(* owns an AT client, the two flags joined / ip_assigned, and drives       *)
(*   join = set_station_mode ; connect_access_point ; process_urc_messages *)
(* The AT client is the environment: each send returns Ok, Other(e) or     *)
(* WouldBlock, and check_urc pops the oldest pending URC message, if any.  *)
(* The modem may append URC messages at any moment, also while a call of   *)
(* the adapter is in progress.                                             *)
(***************************************************************************)
EXTENDS Integers, Sequences, FiniteSets, TLC

\* ---------------------------------------------------------------- bounds
\* Total number of URC messages the modem emits in one behaviour.
MaxUrc == 3

\* ------------------------------------------------------ program constants
\* adapter.rs:114  ssid.len() > 32
MaxSsidLen == 32
\* adapter.rs:118  key.len() > 63
MaxKeyLen == 63

\* URCMessages variants matched in handle_single_urc
URCMessages == {"WifiDisconnected", "ReceivedIP", "WifiConnected", "Ready", "Unknown"}

\* Underlying atat::Error values carried by nb::Error::Other
AtError == {"Timeout", "Parse"}

\* Outcomes of client.send: Ok, nb::Error::Other(e), nb::Error::WouldBlock
NbOk == [t |-> "Ok", e |-> "-"]
NbOther(e) == [t |-> "Other", e |-> e]
NbWouldBlock == [t |-> "WouldBlock", e |-> "-"]
NbNone == [t |-> "NotSent", e |-> "-"]
SendOutcome == {NbOk, NbWouldBlock} \cup {NbOther(e) : e \in AtError}

\* Byte lengths of the ssid and key arguments of join
SsidLen == {0, MaxSsidLen, MaxSsidLen + 1}
KeyLen == {0, MaxKeyLen, MaxKeyLen + 1}

\* Commands handed to client.send
WifiModeCommand == "WifiModeCommand::station_mode"
AccessPointConnectCommand == "AccessPointConnectCommand"

\* Result values: Result<JoinState, JoinError>, () and "still running"
Pending == [tag |-> "Pending", kind |-> "-", cause |-> "-", connected |-> FALSE, ip_assigned |-> FALSE]
Unit == [tag |-> "Unit", kind |-> "-", cause |-> "-", connected |-> FALSE, ip_assigned |-> FALSE]
OkUnit == [tag |-> "OkUnit", kind |-> "-", cause |-> "-", connected |-> FALSE, ip_assigned |-> FALSE]
JoinState(c, i) == [tag |-> "Ok", kind |-> "-", cause |-> "-", connected |-> c, ip_assigned |-> i]
JoinError(k, c) == [tag |-> "Err", kind |-> k, cause |-> c, connected |-> FALSE, ip_assigned |-> FALSE]

VARIABLES
  joined,        \* Adapter.joined
  ip_assigned,   \* Adapter.ip_assigned
  urc_queue,     \* URC messages pending in the client, oldest first
  pc,            \* position of the caller: idle / set_station_mode / connect_access_point / drain
  op,            \* public operation in progress or last returned: none / join / process_urc_messages
  ssid_len,      \* ssid.len() of the join in progress
  key_len,       \* key.len() of the join in progress
  result,        \* value returned by the last call (Pending while running)
  sent,          \* commands passed to client.send during the call, in order
  mode_out,      \* outcome of the send in set_station_mode during the call
  conn_out,      \* outcome of the send in connect_access_point during the call
  polls,         \* number of check_urc polls during the call
  applied,       \* URC messages returned by check_urc during the call, in order
  entry_flags,   \* <<joined, ip_assigned>> when the call started
  drain_start,   \* urc_queue when the drain loop of the call started
  arrived,       \* TRUE if a URC message arrived after the drain loop started
  consumed,      \* all URC messages returned by check_urc since new()
  emitted        \* number of URC messages the modem has emitted

vars == <<joined, ip_assigned, urc_queue, pc, op, ssid_len, key_len, result, sent,
          mode_out, conn_out, polls, applied, entry_flags, drain_start, arrived,
          consumed, emitted>>

\* ------------------------------------------------------- pure functions

\* Variant of ApplyUrc: WifiConnected toggles joined
ApplyUrc_Toggle(msg, f) ==
  CASE msg = "WifiDisconnected" -> <<FALSE, FALSE>>
    [] msg = "ReceivedIP" -> <<f[1], TRUE>>
    [] msg = "WifiConnected" -> <<~f[1], f[2]>>
    [] msg = "Ready" -> f
    [] msg = "Unknown" -> f

\* Variant of ApplyUrc: WifiConnected starts a new association and clears the address
ApplyUrc_ConnClearsIp(msg, f) ==
  CASE msg = "WifiDisconnected" -> <<FALSE, FALSE>>
    [] msg = "ReceivedIP" -> <<f[1], TRUE>>
    [] msg = "WifiConnected" -> <<TRUE, FALSE>>
    [] msg = "Ready" -> f
    [] msg = "Unknown" -> f

\* Variant of ApplyUrc: WifiDisconnected clears joined only
ApplyUrc_KeepIp(msg, f) ==
  CASE msg = "WifiDisconnected" -> <<FALSE, f[2]>>
    [] msg = "ReceivedIP" -> <<f[1], TRUE>>
    [] msg = "WifiConnected" -> <<TRUE, f[2]>>
    [] msg = "Ready" -> f
    [] msg = "Unknown" -> f

\* Variant of ApplyUrc: ReceivedIP also marks the adapter as joined
ApplyUrc_IpJoins(msg, f) ==
  CASE msg = "WifiDisconnected" -> <<FALSE, FALSE>>
    [] msg = "ReceivedIP" -> <<TRUE, TRUE>>
    [] msg = "WifiConnected" -> <<TRUE, f[2]>>
    [] msg = "Ready" -> f
    [] msg = "Unknown" -> f

\* Variant of ApplyUrc: Ready (modem restarted) resets both flags
ApplyUrc_ReadyResets(msg, f) ==
  CASE msg = "WifiDisconnected" -> <<FALSE, FALSE>>
    [] msg = "ReceivedIP" -> <<f[1], TRUE>>
    [] msg = "WifiConnected" -> <<TRUE, f[2]>>
    [] msg = "Ready" -> <<FALSE, FALSE>>
    [] msg = "Unknown" -> f

\* handle_single_urc, the match arms for Some(message): new <<joined, ip_assigned>>
ApplyUrc(msg, f) ==
  CASE msg = "WifiDisconnected" -> <<FALSE, FALSE>>
    [] msg = "ReceivedIP" -> <<f[1], TRUE>>
    [] msg = "WifiConnected" -> <<TRUE, f[2]>>
    [] msg = "Ready" -> f
    [] msg = "Unknown" -> f

\* Variant of StationModeResult: a transport error is reported as ConnectError
StationModeResult_WrongKind(out) ==
  IF out.t = "Ok" THEN OkUnit
  ELSE IF out.t = "Other" THEN JoinError("ConnectError", out.e)
  ELSE JoinError("UnexpectedWouldBlock", "-")

\* set_station_mode: mapping of the send outcome to Result<(), JoinError>
StationModeResult(out) ==
  IF out.t = "Ok" THEN OkUnit
  ELSE IF out.t = "Other" THEN JoinError("ModeError", out.e)
  ELSE JoinError("UnexpectedWouldBlock", "-")

\* Variant of ValidateCredentials: the key is checked before the ssid
ValidateCredentials_KeyFirst(s, k) ==
  IF k > MaxKeyLen THEN JoinError("InvalidPasswordLength", "-")
  ELSE IF s > MaxSsidLen THEN JoinError("InvalidSSDLength", "-")
  ELSE OkUnit

\* connect_access_point: the two length checks before the command is built
ValidateCredentials(s, k) ==
  IF s > MaxSsidLen THEN JoinError("InvalidSSDLength", "-")
  ELSE IF k > MaxKeyLen THEN JoinError("InvalidPasswordLength", "-")
  ELSE OkUnit

\* Variant of ConnectResult: a transport error is reported as ModeError
ConnectResult_WrongKind(out) ==
  IF out.t = "Ok" THEN OkUnit
  ELSE IF out.t = "Other" THEN JoinError("ModeError", out.e)
  ELSE JoinError("UnexpectedWouldBlock", "-")

\* Variant of ConnectResult: WouldBlock is reported as a ConnectError
ConnectResult_BlockAsError(out) ==
  IF out.t = "Ok" THEN OkUnit
  ELSE JoinError("ConnectError", out.e)

\* connect_access_point: mapping of the send outcome to Result<(), JoinError>
ConnectResult(out) ==
  IF out.t = "Ok" THEN OkUnit
  ELSE IF out.t = "Other" THEN JoinError("ConnectError", out.e)
  ELSE JoinError("UnexpectedWouldBlock", "-")

\* ------------------------------------------------------------- actions

\* Variant of Init: the adapter starts as joined
Init_Joined ==
  /\ joined = TRUE
  /\ ip_assigned = FALSE
  /\ urc_queue = <<>>
  /\ pc = "idle"
  /\ op = "none"
  /\ ssid_len = 0
  /\ key_len = 0
  /\ result = Pending
  /\ sent = <<>>
  /\ mode_out = NbNone
  /\ conn_out = NbNone
  /\ polls = 0
  /\ applied = <<>>
  /\ entry_flags = <<TRUE, FALSE>>
  /\ drain_start = <<>>
  /\ arrived = FALSE
  /\ consumed = <<>>
  /\ emitted = 0

\* Adapter::new
Init ==
  /\ joined = FALSE
  /\ ip_assigned = FALSE
  /\ urc_queue = <<>>
  /\ pc = "idle"
  /\ op = "none"
  /\ ssid_len = 0
  /\ key_len = 0
  /\ result = Pending
  /\ sent = <<>>
  /\ mode_out = NbNone
  /\ conn_out = NbNone
  /\ polls = 0
  /\ applied = <<>>
  /\ entry_flags = <<FALSE, FALSE>>
  /\ drain_start = <<>>
  /\ arrived = FALSE
  /\ consumed = <<>>
  /\ emitted = 0

\* The modem emits a URC message; the client queues it.
UrcArrival ==
  /\ emitted < MaxUrc
  /\ \E msg \in URCMessages : urc_queue' = Append(urc_queue, msg)
  /\ emitted' = emitted + 1
  /\ arrived' = (arrived \/ pc = "drain")
  /\ UNCHANGED <<joined, ip_assigned, pc, op, ssid_len, key_len, result, sent,
                 mode_out, conn_out, polls, applied, entry_flags, drain_start, consumed>>

\* Caller enters join(ssid, key)
join ==
  /\ pc = "idle"
  /\ \E s \in SsidLen, k \in KeyLen : ssid_len' = s /\ key_len' = k
  /\ pc' = "set_station_mode"
  /\ op' = "join"
  /\ result' = Pending
  /\ sent' = <<>>
  /\ mode_out' = NbNone
  /\ conn_out' = NbNone
  /\ polls' = 0
  /\ applied' = <<>>
  /\ entry_flags' = <<joined, ip_assigned>>
  /\ drain_start' = <<>>
  /\ arrived' = FALSE
  /\ UNCHANGED <<joined, ip_assigned, urc_queue, consumed, emitted>>

\* Variant of set_station_mode: a failed mode command resets the flags
set_station_mode_ResetOnError ==
  /\ pc = "set_station_mode"
  /\ \E out \in SendOutcome :
       /\ mode_out' = out
       /\ sent' = Append(sent, WifiModeCommand)
       /\ IF StationModeResult(out) = OkUnit
            THEN /\ pc' = "connect_access_point" /\ result' = result
                 /\ UNCHANGED <<joined, ip_assigned>>
            ELSE /\ pc' = "idle" /\ result' = StationModeResult(out)
                 /\ joined' = FALSE /\ ip_assigned' = FALSE
  /\ UNCHANGED <<urc_queue, op, ssid_len, key_len, conn_out,
                 polls, applied, entry_flags, drain_start, arrived, consumed, emitted>>

\* join line 67: self.set_station_mode()?
set_station_mode ==
  /\ pc = "set_station_mode"
  /\ \E out \in SendOutcome :
       /\ mode_out' = out
       /\ sent' = Append(sent, WifiModeCommand)
       /\ IF StationModeResult(out) = OkUnit
            THEN pc' = "connect_access_point" /\ result' = result
            ELSE pc' = "idle" /\ result' = StationModeResult(out)
  /\ UNCHANGED <<joined, ip_assigned, urc_queue, op, ssid_len, key_len, conn_out,
                 polls, applied, entry_flags, drain_start, arrived, consumed, emitted>>

\* Variant of connect_access_point: a successful connect command marks the
\* adapter as joined
connect_access_point_SetsJoined ==
  /\ pc = "connect_access_point"
  /\ IF ValidateCredentials(ssid_len, key_len) # OkUnit
       THEN /\ pc' = "idle"
            /\ result' = ValidateCredentials(ssid_len, key_len)
            /\ UNCHANGED <<sent, conn_out, drain_start, joined>>
       ELSE \E out \in SendOutcome :
            /\ conn_out' = out
            /\ sent' = Append(sent, AccessPointConnectCommand)
            /\ IF ConnectResult(out) = OkUnit
                 THEN pc' = "drain" /\ result' = result /\ drain_start' = urc_queue
                      /\ joined' = TRUE
                 ELSE pc' = "idle" /\ result' = ConnectResult(out) /\ drain_start' = drain_start
                      /\ joined' = joined
  /\ UNCHANGED <<ip_assigned, urc_queue, op, ssid_len, key_len, mode_out,
                 polls, applied, entry_flags, arrived, consumed, emitted>>

\* join line 68: self.connect_access_point(ssid, key)?
connect_access_point ==
  /\ pc = "connect_access_point"
  /\ IF ValidateCredentials(ssid_len, key_len) # OkUnit
       THEN /\ pc' = "idle"
            /\ result' = ValidateCredentials(ssid_len, key_len)
            /\ UNCHANGED <<sent, conn_out, drain_start>>
       ELSE \E out \in SendOutcome :
            /\ conn_out' = out
            /\ sent' = Append(sent, AccessPointConnectCommand)
            /\ IF ConnectResult(out) = OkUnit
                 THEN pc' = "drain" /\ result' = result /\ drain_start' = urc_queue
                 ELSE pc' = "idle" /\ result' = ConnectResult(out) /\ drain_start' = drain_start
  /\ UNCHANGED <<joined, ip_assigned, urc_queue, op, ssid_len, key_len, mode_out,
                 polls, applied, entry_flags, arrived, consumed, emitted>>

\* Variant of process_urc_messages: the call re-issues the join commands
process_urc_messages_Rejoin ==
  /\ pc = "idle"
  /\ pc' = "set_station_mode"
  /\ op' = "process_urc_messages"
  /\ result' = Pending
  /\ sent' = <<>>
  /\ mode_out' = NbNone
  /\ conn_out' = NbNone
  /\ polls' = 0
  /\ applied' = <<>>
  /\ entry_flags' = <<joined, ip_assigned>>
  /\ drain_start' = urc_queue
  /\ arrived' = FALSE
  /\ UNCHANGED <<joined, ip_assigned, urc_queue, ssid_len, key_len, consumed, emitted>>

\* Caller enters process_urc_messages()
process_urc_messages ==
  /\ pc = "idle"
  /\ pc' = "drain"
  /\ op' = "process_urc_messages"
  /\ result' = Pending
  /\ sent' = <<>>
  /\ mode_out' = NbNone
  /\ conn_out' = NbNone
  /\ polls' = 0
  /\ applied' = <<>>
  /\ entry_flags' = <<joined, ip_assigned>>
  /\ drain_start' = urc_queue
  /\ arrived' = FALSE
  /\ UNCHANGED <<joined, ip_assigned, urc_queue, ssid_len, key_len, consumed, emitted>>

\* client.check_urc(): the oldest pending URC message, or None
check_urc == IF urc_queue = <<>> THEN "None" ELSE Head(urc_queue)

\* Variant of HandleReturns: an Unknown message ends the loop
HandleReturns_StopOnUnknown(polled) == polled \notin {"None", "Unknown"}

\* Variant of HandleReturns: the loop goes on after an empty poll (waits for
\* the next message)
HandleReturns_WaitForNext(polled) == TRUE

\* handle_single_urc, its return value: `None => return false`, otherwise `true`
HandleReturns(polled) == polled # "None"

\* Variant of JoinOk: the two fields are swapped
JoinOk_Swapped(j, i) == JoinState(i, j)

\* join lines 71-74: the JoinState built from the flags
JoinOk(j, i) == JoinState(j, i)

\* One iteration of `while self.handle_single_urc() {}`, its effect on the
\* adapter and the client: poll once, apply the message; when handle_single_urc
\* returns false the loop ends and the enclosing call returns (join builds the
\* JoinState from the flags).
HandleStep ==
  /\ pc = "drain"
  /\ IF check_urc = "None"
       THEN UNCHANGED <<joined, ip_assigned, urc_queue>>
       ELSE /\ joined' = ApplyUrc(check_urc, <<joined, ip_assigned>>)[1]
            /\ ip_assigned' = ApplyUrc(check_urc, <<joined, ip_assigned>>)[2]
            /\ urc_queue' = Tail(urc_queue)
  /\ IF HandleReturns(check_urc)
       THEN UNCHANGED <<pc, result>>
       ELSE /\ pc' = "idle"
            /\ result' = IF op = "join" THEN JoinOk(joined', ip_assigned') ELSE Unit

\* handle_single_urc with the record of the polls and of the messages consumed
handle_single_urc ==
  /\ HandleStep
  /\ polls' = polls + 1
  /\ IF check_urc = "None"
       THEN UNCHANGED <<applied, consumed>>
       ELSE /\ applied' = Append(applied, check_urc)
            /\ consumed' = Append(consumed, check_urc)
  /\ UNCHANGED <<op, ssid_len, key_len, sent, mode_out, conn_out, entry_flags,
                 drain_start, arrived, emitted>>

Next ==
  \/ UrcArrival
  \/ join
  \/ set_station_mode
  \/ connect_access_point
  \/ process_urc_messages
  \/ handle_single_urc

Spec == Init /\ [][Next]_vars

\* ------------------------------------------- specification for termination
\* The modem is not limited to MaxUrc messages: it may append a message
\* whenever fewer than MaxPending are pending, for ever.  The records of polls
\* and consumed messages are not kept, so that an endless run is a cycle.
MaxPending == 1

\* The modem emits a URC message (no limit on the total number)
UrcFlood ==
  /\ Len(urc_queue) < MaxPending
  /\ \E msg \in URCMessages : urc_queue' = Append(urc_queue, msg)
  /\ arrived' = (arrived \/ pc = "drain")
  /\ UNCHANGED <<joined, ip_assigned, pc, op, ssid_len, key_len, result, sent, mode_out,
                 conn_out, polls, applied, entry_flags, drain_start, consumed, emitted>>

\* handle_single_urc without the record of polls and consumed messages
drain_poll ==
  /\ HandleStep
  /\ UNCHANGED <<op, ssid_len, key_len, sent, mode_out, conn_out, polls, applied,
                 entry_flags, drain_start, arrived, consumed, emitted>>

NextLive ==
  \/ UrcFlood
  \/ join
  \/ set_station_mode
  \/ connect_access_point
  \/ process_urc_messages
  \/ drain_poll

\* The caller's thread always runs on: a call in progress takes its next step.
\* Nothing obliges the modem to emit, or the caller to start a call.
LiveSpec ==
  /\ Init
  /\ [][NextLive]_vars
  /\ WF_vars(set_station_mode)
  /\ WF_vars(connect_access_point)
  /\ WF_vars(drain_poll)

\* ---------------------------------------------------- helper definitions

\* The folding rule of the notification table, written out per kind
Rule(msg, f) ==
  IF msg = "WifiDisconnected" THEN <<FALSE, FALSE>>
  ELSE IF msg = "WifiConnected" THEN <<TRUE, f[2]>>
  ELSE IF msg = "ReceivedIP" THEN <<f[1], TRUE>>
  ELSE f

\* Left-to-right fold of Rule over a sequence of messages
RECURSIVE FoldRule(_, _)
FoldRule(q, f) == IF q = <<>> THEN f ELSE FoldRule(Tail(q), Rule(Head(q), f))

Has(q, msg) == \E n \in 1..Len(q) : q[n] = msg

\* Index of the last occurrence of msg in q, 0 if there is none
LastIndex(q, msg) ==
  IF Has(q, msg) THEN CHOOSE n \in 1..Len(q) : q[n] = msg /\ \A m \in (n+1)..Len(q) : q[m] # msg
  ELSE 0

IsPrefix(p, q) == Len(p) <= Len(q) /\ \A n \in 1..Len(p) : p[n] = q[n]

\* The call in progress has returned
Returned == pc = "idle" /\ op # "none"

\* A drain (standalone or the drain step of join) has completed
DrainDone == pc = "idle" /\ result.tag \in {"Ok", "Unit"}

\* ------------------------------------------------------------------ C1
\* C1 (as claimed): for every SSID longer than 32 bytes join returns
\* InvalidSSIDLength and no command at all is sent during that call.
C1_NoCommandOnLongSsid ==
  (Returned /\ op = "join" /\ ssid_len > MaxSsidLen)
    => (result = JoinError("InvalidSSDLength", "-") /\ sent = <<>>)

\* ------------------------------------------------------------------ C2
\* C2 (as claimed): for every key longer than 63 bytes with an SSID of at most
\* 32 bytes join returns InvalidPasswordLength and no command at all is sent.
C2_NoCommandOnLongKey ==
  (Returned /\ op = "join" /\ ssid_len <= MaxSsidLen /\ key_len > MaxKeyLen)
    => (result = JoinError("InvalidPasswordLength", "-") /\ sent = <<>>)

\* ------------------------------------------------------------------ C3
\* C3: if the set-station-mode command fails with transport error e, join
\* returns ModeError(e) and the command trace of the call is exactly
\* [set-station-mode]; connect-access-point is never issued.
C3_ModeErrorShortCircuit ==
  (op = "join" /\ mode_out.t = "Other")
    => /\ pc = "idle"
       /\ result = JoinError("ModeError", mode_out.e)
       /\ sent = <<WifiModeCommand>>
       /\ conn_out = NbNone

C3_Witness ==
  /\ Returned /\ op = "join"
  /\ mode_out = NbOther("Timeout")
  /\ result = JoinError("ModeError", "Timeout")
  /\ urc_queue # <<>>

\* ------------------------------------------------------------------ C4
\* C4 (as claimed): after any drain in which at least one WifiDisconnected was
\* processed, the adapter is never observed with ip_assigned = true while
\* joined = false.
C4_NeverIpWithoutJoin ==
  (DrainDone /\ Has(applied, "WifiDisconnected")) => ~(ip_assigned /\ ~joined)

\* C4 (amended): after any drain in which at least one WifiDisconnected was
\* processed and no ReceivedIP was processed after the last WifiDisconnected,
\* the adapter is never observed with ip_assigned = true while joined = false.
C4_NeverIpWithoutJoinUnlessIpAfter ==
  (/\ DrainDone
   /\ Has(applied, "WifiDisconnected")
   /\ LastIndex(applied, "ReceivedIP") < LastIndex(applied, "WifiDisconnected"))
    => ~(ip_assigned /\ ~joined)

C4_Witness ==
  /\ DrainDone
  /\ entry_flags = <<TRUE, TRUE>>
  /\ applied = <<"WifiDisconnected">>
  /\ ~joined /\ ~ip_assigned

\* ------------------------------------------------------------------ C5
\* C5: the flags during and after a drain equal the left-to-right fold of the
\* per-notification rule over the messages consumed so far by the call, in
\* arrival order, starting from the flags held when the call began; in
\* particular [WifiConnected, ReceivedIP] yields (true, true) and
\* [WifiConnected, WifiDisconnected] yields (false, false).
C5_FlagsAreFold ==
  /\ <<joined, ip_assigned>> = FoldRule(applied, entry_flags)
  /\ (DrainDone /\ applied = <<"WifiConnected", "ReceivedIP">>) => (joined /\ ip_assigned)
  /\ (DrainDone /\ applied = <<"WifiConnected", "WifiDisconnected">>) => (~joined /\ ~ip_assigned)
  /\ (DrainDone /\ ~arrived) => <<joined, ip_assigned>> = FoldRule(drain_start, entry_flags)

C5_Witness ==
  /\ DrainDone
  /\ entry_flags = <<FALSE, TRUE>>
  /\ applied = <<"WifiConnected", "WifiDisconnected">>
  /\ ~joined /\ ~ip_assigned

\* ------------------------------------------------------------------ C6
\* C6: a would-block outcome of the set-station-mode command or of the
\* connect-access-point command makes join return exactly UnexpectedWouldBlock,
\* whichever command produced it; a would-block on set-station-mode prevents
\* the connect command from being issued.
C6_WouldBlockMapsToUnexpected ==
  (op = "join" /\ (mode_out = NbWouldBlock \/ conn_out = NbWouldBlock))
    => /\ pc = "idle"
       /\ result = JoinError("UnexpectedWouldBlock", "-")
       /\ mode_out = NbWouldBlock => (sent = <<WifiModeCommand>> /\ conn_out = NbNone)

C6_Witness ==
  /\ Returned /\ op = "join"
  /\ mode_out = NbOk
  /\ conn_out = NbWouldBlock
  /\ sent = <<WifiModeCommand, AccessPointConnectCommand>>
  /\ result = JoinError("UnexpectedWouldBlock", "-")

\* ------------------------------------------------------------------ C7
\* C7: when both commands succeed, join polls for notifications only after the
\* connect command has returned Ok, and at the step where join returns the
\* JoinState equals the flags (connected = joined, ip_assigned = ip_assigned),
\* the flags are the fold over the flags held before the call of the messages
\* the drain consumed, which include all messages queued when the drain began
\* (and are exactly those when none arrived meanwhile), and the queue is empty.
C7_PollOnlyAfterConnect ==
  (op = "join" /\ polls > 0)
    => (mode_out = NbOk /\ conn_out = NbOk /\ sent = <<WifiModeCommand, AccessPointConnectCommand>>)

C7_ReturnStep ==
  (op = "join" /\ pc = "drain" /\ pc' = "idle")
    => /\ result'.tag = "Ok"
       /\ result'.connected = joined' /\ result'.ip_assigned = ip_assigned'
       /\ <<joined', ip_assigned'>> = FoldRule(applied', entry_flags)
       /\ IsPrefix(drain_start, applied')
       /\ (~arrived => applied' = drain_start)
       /\ urc_queue' = <<>>

C7_JoinSnapshot == [](C7_PollOnlyAfterConnect) /\ [][C7_ReturnStep]_vars

C7_Witness ==
  /\ Returned /\ op = "join"
  /\ result = JoinState(TRUE, FALSE)
  /\ entry_flags = <<FALSE, TRUE>>
  /\ applied = <<"WifiDisconnected", "WifiConnected">>
  /\ polls = 3

\* ------------------------------------------------------------------ C8
\* C8 (as claimed): if both commands succeed and no notifications are pending,
\* join returns JoinState{connected: false, ip_assigned: false}; an adapter
\* produced by new starts with joined = false and ip_assigned = false.
C8_JoinReturnsFalseFalse ==
  /\ (Returned /\ op = "join" /\ result.tag = "Ok" /\ applied = <<>>)
       => result = JoinState(FALSE, FALSE)
  /\ (consumed = <<>>) => (~joined /\ ~ip_assigned)

\* C8 (amended): if both commands succeed and no notifications are pending,
\* join returns a JoinState equal to the flags held before the call, which is
\* {false, false} for an adapter that has not consumed any notification yet;
\* an adapter produced by new starts with joined = false, ip_assigned = false.
C8_JoinReturnsEntryFlags ==
  /\ (Returned /\ op = "join" /\ result.tag = "Ok" /\ applied = <<>>)
       => /\ result = JoinState(entry_flags[1], entry_flags[2])
          /\ (consumed = <<>>) => result = JoinState(FALSE, FALSE)
  /\ (consumed = <<>>) => (~joined /\ ~ip_assigned)

C8_Witness ==
  /\ Returned /\ op = "join" /\ result.tag = "Ok"
  /\ applied = <<>> /\ consumed = <<>>
  /\ polls = 1
  /\ result = JoinState(FALSE, FALSE)

\* ------------------------------------------------------------------ C9
\* C9: a poll that returns a Ready or an Unknown message leaves joined and
\* ip_assigned unchanged, whatever they were, and does not stop the drain:
\* the message is removed and the loop goes on to the next poll.
C9_ReadyUnknownStep ==
  (pc = "drain" /\ polls' = polls + 1 /\ check_urc \in {"Ready", "Unknown"})
    => /\ joined' = joined /\ ip_assigned' = ip_assigned
       /\ pc' = "drain"
       /\ urc_queue' = Tail(urc_queue)

C9_ReadyUnknownKeepFlags == [][C9_ReadyUnknownStep]_vars

C9_Witness ==
  /\ DrainDone
  /\ entry_flags = <<FALSE, TRUE>>
  /\ applied = <<"Unknown", "WifiConnected">>
  /\ joined /\ ip_assigned

\* ----------------------------------------------------------------- C10
\* C10: with n messages queued when process_urc_messages starts and none
\* arriving during the call, the call consumes exactly those n messages, makes
\* n + 1 polls (every poll but the last returns a message), leaves the queue
\* empty and returns (); with n = 0 both flags are left unchanged.
C10_EveryPollButLastConsumes ==
  (pc = "drain") => polls = Len(applied)

C10_ReturnStep ==
  (op = "process_urc_messages" /\ pc = "drain" /\ pc' = "idle" /\ ~arrived)
    => /\ applied' = drain_start
       /\ polls' = Len(drain_start) + 1
       /\ urc_queue' = <<>>
       /\ result' = Unit
       /\ (drain_start = <<>>) => (joined' = entry_flags[1] /\ ip_assigned' = entry_flags[2]
                                    /\ joined' = joined /\ ip_assigned' = ip_assigned)

C10_DrainsExactlyQueued == [](C10_EveryPollButLastConsumes) /\ [][C10_ReturnStep]_vars

C10_Witness ==
  /\ Returned /\ op = "process_urc_messages"
  /\ ~arrived
  /\ Len(drain_start) = 2
  /\ applied = drain_start
  /\ polls = 3
  /\ result = Unit

\* ----------------------------------------------------------------- C11
\* C11 (as claimed): every drain loop that was started eventually returns, also
\* when the modem keeps appending notifications while the loop is running.
C11_DrainAlwaysReturns == (pc = "drain") ~> (pc = "idle")

\* A step in which the modem appends a message
MessageArrives == Len(urc_queue') > Len(urc_queue)

\* A poll that finds no message pending ends the loop at once
C11_EmptyPollStep ==
  (pc = "drain" /\ urc_queue = <<>> /\ urc_queue' = <<>>) => (pc' = "idle" /\ result' # Pending)

\* C11 (amended): every drain loop that was started eventually returns provided
\* the modem appends only finitely many notifications while it runs; the loop
\* never waits for future notifications: a poll that finds none pending ends it.
C11_DrainReturnsIfModemQuiets ==
  /\ (<>[][~MessageArrives]_vars) => ((pc = "drain") ~> (pc = "idle"))
  /\ [][C11_EmptyPollStep]_vars

C11_Witness ==
  /\ Returned /\ op = "process_urc_messages"
  /\ arrived
  /\ result = Unit
  /\ urc_queue = <<>>
  /\ joined /\ ip_assigned

\* ----------------------------------------------------------------- C12
\* C12: within one join call each command is issued at most once and in the
\* order set-station-mode, connect-access-point; connect is issued only after
\* set-station-mode succeeded; a connect failing with transport error e yields
\* ConnectError(e); once a step has failed the call has returned and its
\* command trace does not grow any more (no retry, no rollback command).
C12_TraceShape ==
  (op = "join")
    => /\ sent \in {<<>>, <<WifiModeCommand>>, <<WifiModeCommand, AccessPointConnectCommand>>}
       /\ (Len(sent) = 2) => mode_out = NbOk
       /\ (conn_out.t = "Other")
            => (pc = "idle" /\ result = JoinError("ConnectError", conn_out.e) /\ Len(sent) = 2)
       /\ (result.tag = "Err") => pc = "idle"

C12_NoCommandAfterFailure ==
  (op = "join" /\ result.tag = "Err" /\ op' = "join" /\ result' = result) => sent' = sent

C12_CommandSequence == [](C12_TraceShape) /\ [][C12_NoCommandAfterFailure]_vars

C12_Witness ==
  /\ Returned /\ op = "join"
  /\ mode_out = NbOk
  /\ conn_out = NbOther("Parse")
  /\ result = JoinError("ConnectError", "Parse")
  /\ sent = <<WifiModeCommand, AccessPointConnectCommand>>
  /\ urc_queue # <<>>

\* ----------------------------------------------------------------- C13
\* C13: a standalone process_urc_messages call never issues a command: during
\* and after the call no send has been made, whatever the queue holds.
C13_DrainSendsNothing ==
  (op = "process_urc_messages")
    => (sent = <<>> /\ mode_out = NbNone /\ conn_out = NbNone
        /\ pc \in {"drain", "idle"})

C13_Witness ==
  /\ Returned /\ op = "process_urc_messages"
  /\ Len(applied) = 2
  /\ polls = 3
  /\ sent = <<>>

\* ----------------------------------------------------------------- C14
\* C14: validation checks the SSID before the key, with strict bounds: when
\* the SSID exceeds 32 bytes and the key exceeds 63 bytes the validation error
\* is InvalidSSIDLength, never InvalidPasswordLength, and an SSID of exactly 32
\* bytes with a key of exactly 63 bytes raises no validation error (the connect
\* command is sent once the mode command succeeded).
C14_SsidFirstStrictBounds ==
  (Returned /\ op = "join")
    => /\ (result.kind = "InvalidPasswordLength") => (ssid_len <= MaxSsidLen /\ key_len > MaxKeyLen)
       /\ (result.kind = "InvalidSSDLength") => ssid_len > MaxSsidLen
       /\ (ssid_len > MaxSsidLen /\ key_len > MaxKeyLen /\ mode_out = NbOk)
            => result = JoinError("InvalidSSDLength", "-")
       /\ (ssid_len = MaxSsidLen /\ key_len = MaxKeyLen /\ mode_out = NbOk)
            => (conn_out # NbNone /\ result.kind \notin {"InvalidSSDLength", "InvalidPasswordLength"})

C14_Witness ==
  /\ Returned /\ op = "join"
  /\ ssid_len = MaxSsidLen + 1 /\ key_len = MaxKeyLen + 1
  /\ mode_out = NbOk
  /\ result = JoinError("InvalidSSDLength", "-")

\* ----------------------------------------------------------------- C15
\* C15: folding is idempotent per notification kind: for every kind and every
\* pair of flags, applying the kind twice gives the flags of applying it once,
\* and a poll that consumes a message of the same kind as the message consumed
\* just before it in the same drain leaves both flags as they are.
C15_SecondApplicationStep ==
  (/\ pc = "drain" /\ polls' = polls + 1 /\ check_urc # "None"
   /\ applied # <<>> /\ applied[Len(applied)] = check_urc)
    => (joined' = joined /\ ip_assigned' = ip_assigned)

C15_TwiceIsOnce ==
  \A k \in URCMessages : \A j \in BOOLEAN : \A i \in BOOLEAN :
    ApplyUrc(k, ApplyUrc(k, <<j, i>>)) = ApplyUrc(k, <<j, i>>)

C15_FoldIdempotent == [](C15_TwiceIsOnce) /\ [][C15_SecondApplicationStep]_vars

C15_Witness ==
  /\ DrainDone
  /\ entry_flags = <<TRUE, FALSE>>
  /\ applied = <<"ReceivedIP", "ReceivedIP">>
  /\ joined /\ ip_assigned

\* ----------------------------------------------------------------- C16
\* C16: last writer wins within a drain: with q the messages consumed from
\* prior flags (j, i), joined is decided by the last WifiConnected or
\* WifiDisconnected in q (true / false, j if q has neither), and ip_assigned
\* is true exactly when a ReceivedIP occurs after the last WifiDisconnected
\* in q, or q has no WifiDisconnected and (i is true or q has a ReceivedIP).
C16_LastWriterWins ==
  LET lastC == LastIndex(applied, "WifiConnected")
      lastD == LastIndex(applied, "WifiDisconnected")
      lastI == LastIndex(applied, "ReceivedIP")
  IN /\ joined = (IF lastC = 0 /\ lastD = 0 THEN entry_flags[1] ELSE lastC > lastD)
     /\ ip_assigned = (\/ (lastD > 0 /\ lastI > lastD)
                       \/ (lastD = 0 /\ (entry_flags[2] \/ lastI > 0)))

C16_Witness ==
  /\ DrainDone
  /\ applied = <<"WifiConnected", "WifiDisconnected", "ReceivedIP">>
  /\ ~joined /\ ip_assigned

\* ----------------------------------------------------------------- C17
\* C17: a join call that returns an error has made no notification poll: both
\* flags are as they were before the call, and no step of the call before the
\* drain removes or reorders a pending notification (the queue changes only
\* by the modem appending to it).
C17_ErrorJoinNoPoll ==
  (Returned /\ op = "join" /\ result.tag = "Err")
    => (polls = 0 /\ applied = <<>> /\ <<joined, ip_assigned>> = entry_flags)

C17_QueueKeptStep ==
  (pc \in {"set_station_mode", "connect_access_point"})
    => /\ IsPrefix(urc_queue, urc_queue')
       /\ consumed' = consumed
       /\ joined' = joined /\ ip_assigned' = ip_assigned

C17_ErrorJoinLeavesState == [](C17_ErrorJoinNoPoll) /\ [][C17_QueueKeptStep]_vars

C17_Witness ==
  /\ Returned /\ op = "join"
  /\ result = JoinError("UnexpectedWouldBlock", "-")
  /\ entry_flags = <<TRUE, TRUE>>
  /\ joined /\ ip_assigned
  /\ urc_queue = <<"WifiDisconnected">>

\* ----------------------------------------------------------------- C18
\* C18: the flags change only by folding notifications: in every reachable
\* state they equal the fold, from (false, false), of all notifications
\* consumed since new; a command outcome never changes them; and a successful
\* join with no notification consumed returns the flags held before the call
\* (connected = true, ip_assigned = true when both were true).
C18_FlagsAreFoldOfConsumed ==
  /\ <<joined, ip_assigned>> = FoldRule(consumed, <<FALSE, FALSE>>)
  /\ (Returned /\ op = "join" /\ result.tag = "Ok" /\ applied = <<>> /\ entry_flags = <<TRUE, TRUE>>)
       => result = JoinState(TRUE, TRUE)

C18_CommandStep ==
  (sent' # sent) => (joined' = joined /\ ip_assigned' = ip_assigned)

C18_FlagsOnlyByFolding == [](C18_FlagsAreFoldOfConsumed) /\ [][C18_CommandStep]_vars

C18_Witness ==
  /\ Returned /\ op = "join"
  /\ entry_flags = <<TRUE, TRUE>>
  /\ applied = <<>>
  /\ mode_out = NbOk /\ conn_out = NbOk
  /\ result = JoinState(TRUE, TRUE)

====
